---- MODULE Spec2Model ----
(***************************************************************************)
(* Concurrent slot allocation and ticket lifecycle of ParkingLot.py:       *)
(* Slot, NearestSlotAllocationStrategy, Ticket, PricingService and         *)
(* ParkingService, run by several threads.  One action per statement that  *)
(* touches shared state; a thread's position is pc[t].  BookingService of  *)
(* CarRental.py, called by the same threads, is modelled the same way.     *)
(***************************************************************************)
EXTENDS Integers, Sequences, FiniteSets, TLC

\* Number of Ticket objects ever constructed (caps the uuid supply).
MaxTickets == 3
\* The same cap where liveness is checked (FairSpec).
MaxTicketsFair == 2

\* src/ParkingLot.py:84  (exit_time - entry_time)/3600
SecondsPerHour == 3600
\* src/ParkingLot.py:85  hours * 50
HourlyRate == 50

\* The threads calling into the one ParkingService.
Threads == {1, 2}

\* VehicleCategory
CAR == "CAR"
BIKE == "BIKE"
VehicleCategory == {CAR, BIKE}

\* SlotStatus
AVAILABLE == "AVAILABLE"
BOOKED == "BOOKED"

\* An unlocked threading.Lock.
Unlocked == 0
\* Python's None, as the value of Slot.vehicle and of the local variable slot.
NoVehicle == [vehicle_id |-> "None", vehicle_type |-> "None"]
NoSlot == 0

\* Vehicle objects the callers hold: Car(...) and Bike(...).
Car(id) == [vehicle_id |-> id, vehicle_type |-> CAR]
Bike(id) == [vehicle_id |-> id, vehicle_type |-> BIKE]
Vehicles == {Car("car1"), Bike("bike1")}
AllVehicles == {Car("car1"), Car("car2"), Bike("bike1")}

\* The facility of main(), cut down: two floors, a BIKE slot before the CAR
\* slots (main() builds floor1 = [slot6, slot3, slot1], floor2 = [slot2, ...]).
MainFloors == << <<3, 1>>, <<2>> >>
MainSlotType == (1 :> CAR) @@ (2 :> CAR) @@ (3 :> BIKE)

\* Seconds the clock may jump between two calls.
ClockSteps == {1800, 3600, 7200}

\* CarRental.py: the repository of lines 112-124 cut down to sedan = Car(1,
\* SEDAN) and bike = Bike(4, SCOOTY); DefaultPricing.PRICE_MAP for these types.
RentalVehicleType == (1 :> "SEDAN") @@ (4 :> "SCOOTY")
RentalIds == DOMAIN RentalVehicleType
PRICE_MAP == [SEDAN |-> 150, SCOOTY |-> 40]
\* A vehicle id that is not a key of the vehicles dict.
UnknownVehicleId == 9
\* booking1, booking2: BookingService objects built over the same vehicles dict.
BookingServices == {"booking1", "booking2"}
\* The hours asked for.
BookingHours == {10, 12}

VARIABLES
    floors,          \* ParkingService.floors: sequence of floors, each a sequence of slot ids
    vehicle_type,    \* Slot.vehicle_type, per slot id
    slot_status,     \* Slot.slot_status
    slot_vehicle,    \* Slot.vehicle
    lock,            \* Slot.lock: Unlocked or the thread that acquired it
    active_tickets,  \* ParkingService.active_tickets: ticket_id -> Ticket
    tickets,         \* every Ticket object constructed so far
    now,             \* time.time()
    pc,              \* per thread: the statement it is about to execute
    call,            \* per thread: the call it is in, or last made
    idx,             \* per thread: position of allocate_slot's scan
    slot,            \* per thread: the local variable slot
    ret,             \* per thread: the value being returned or raised; at pc "done",
                     \* what the call returned or raised
    fees_paid,       \* per ticket id: how many unpark_vehicle calls returned a fee for it
    driver,          \* the locals of a single-threaded caller running a fixed script
    vehicle_status,  \* CarRental.py Vehicle.vehicle_status, per vehicle id
    vehicle_lock,    \* CarRental.py Vehicle.lock: Unlocked or the thread inside "with"
    bookings         \* per vehicle id: how many book calls returned a price for it

vars == <<floors, vehicle_type, slot_status, slot_vehicle, lock, active_tickets,
          tickets, now, pc, call, idx, slot, ret, fees_paid, driver,
          vehicle_status, vehicle_lock, bookings>>

\* The state of CarRental.py.
rental == <<vehicle_status, vehicle_lock, bookings>>
\* What no call of the parking service ever writes.
config == <<floors, vehicle_type, driver, rental>>
slotState == <<slot_status, slot_vehicle>>

----------------------------------------------------------------------------
\* Pure helpers

RECURSIVE FlattenLastFloorFirst(_)
\* for floor in reversed(floors): the floors scanned from the last one
FlattenLastFloorFirst(fs) ==
    IF fs = <<>> THEN <<>> ELSE FlattenLastFloorFirst(Tail(fs)) \o Head(fs)

RECURSIVE Flatten(_)
\* for floor in floors: for slot in floor.slots  -- the scan order
Flatten(fs) == IF fs = <<>> THEN <<>> ELSE Head(fs) \o Flatten(Tail(fs))

ScanOrder == Flatten(floors)
SlotIds == DOMAIN vehicle_type

\* calculate_price without the max(1, ...): hours = (exit - entry)/3600.
calculate_price_no_minimum(entry_time, exit_time) ==
    [num |-> (exit_time - entry_time) * HourlyRate, den |-> SecondsPerHour]

\* PricingService.calculate_price: max(1, (exit - entry)/3600) * 50, kept exact
\* as the fraction num/den (den = 3600).
calculate_price(entry_time, exit_time) ==
    LET secs == exit_time - entry_time
        hoursNum == IF secs > SecondsPerHour THEN secs ELSE SecondsPerHour
    IN  [num |-> hoursNum * HourlyRate, den |-> SecondsPerHour]

\* Ticket.__init__: a fresh uuid, the slot, the vehicle, the time of creation.
NewTicketId == Cardinality(tickets) + 1
Ticket(s, v) == [ticket_id |-> NewTicketId, slot |-> s, vehicle |-> v, entry_time |-> now]

\* Values a call returns or raises.
NoResult == [kind |-> "pending"]
RetNone == [kind |-> "none"]
RetTicket(tk) == [kind |-> "ticket", ticket |-> tk]
RetFee(f) == [kind |-> "fee", fee |-> f]
Raise(msg) == [kind |-> "error", msg |-> msg]
InvalidTicket == "Invalid or expired ticket"
KeyError == "KeyError"

NoCall == [op |-> "none"]
ParkCall(v) == [op |-> "park", vehicle |-> v]
UnparkCall(tk) == [op |-> "unpark", ticket |-> tk]

\* threading.Lock.release()
Released(s) == [lock EXCEPT ![s] = Unlocked]
\* threading.Lock.acquire() succeeding for thread t
Acquired(s, t) == [lock EXCEPT ![s] = t]

\* What a thread's locals hold outside allocate_slot / after the call.
Finished(f, t) == [f EXCEPT ![t] = "done"]

\* Park calls that have not constructed their Ticket yet.
ParksBeforeMint ==
    {t \in Threads : pc[t] \in {"scan", "alloc_check", "alloc_release",
                                "park_recheck", "slot_park_vehicle", "slot_park_status",
                                "park_ticket"}}

----------------------------------------------------------------------------
\* Initial state: main() up to the construction of ParkingService

InitThreads ==
    /\ pc = [t \in Threads |-> "idle"]
    /\ call = [t \in Threads |-> NoCall]
    /\ idx = [t \in Threads |-> 0]
    /\ slot = [t \in Threads |-> NoSlot]
    /\ ret = [t \in Threads |-> NoResult]

InitEmpty ==
    /\ slot_status = [s \in SlotIds |-> AVAILABLE]
    /\ slot_vehicle = [s \in SlotIds |-> NoVehicle]
    /\ lock = [s \in SlotIds |-> Unlocked]
    /\ active_tickets = <<>>
    /\ tickets = {}
    /\ fees_paid = <<>>
    /\ now = 0

NoDriver == [step |-> 0]

\* CarRental.py lines 112-126: the vehicles of the repository, as constructed
\* by Vehicle.__init__ (AVAILABLE, lock free).
RentalInit ==
    /\ vehicle_status = [v \in RentalIds |-> AVAILABLE]
    /\ vehicle_lock = [v \in RentalIds |-> Unlocked]
    /\ bookings = [v \in RentalIds |-> 0]

Init ==
    /\ floors = MainFloors
    /\ vehicle_type = MainSlotType
    /\ driver = NoDriver
    /\ InitEmpty
    /\ InitThreads
    /\ RentalInit

----------------------------------------------------------------------------
\* park_vehicle

\* A caller enters park_vehicle(vehicle); allocate_slot starts its scan.
StartPark(t, v) ==
    /\ pc[t] = "idle"
    /\ pc' = [pc EXCEPT ![t] = "scan"]
    /\ call' = [call EXCEPT ![t] = ParkCall(v)]
    /\ idx' = [idx EXCEPT ![t] = 1]
    /\ UNCHANGED <<config, slotState, lock, active_tickets, tickets, now, slot, ret,
                   fees_paid>>

\* allocate_slot giving up at the first slot whose lock is held: return None
\* in place of going on to the next slot.
AllocProbeGivesUpWhenLocked(t) ==
    /\ pc[t] = "scan"
    /\ IF idx[t] > Len(ScanOrder)
       THEN /\ pc' = Finished(pc, t)
            /\ ret' = [ret EXCEPT ![t] = RetNone]
            /\ idx' = [idx EXCEPT ![t] = 0]
            /\ UNCHANGED <<slot, lock>>
       ELSE LET s == ScanOrder[idx[t]] IN
            IF vehicle_type[s] # call[t].vehicle.vehicle_type
            THEN /\ idx' = [idx EXCEPT ![t] = idx[t] + 1]
                 /\ UNCHANGED <<pc, slot, lock, ret>>
            ELSE IF lock[s] # Unlocked
            THEN /\ pc' = Finished(pc, t)
                 /\ ret' = [ret EXCEPT ![t] = RetNone]
                 /\ idx' = [idx EXCEPT ![t] = 0]
                 /\ UNCHANGED <<slot, lock>>
            ELSE /\ lock' = Acquired(s, t)
                 /\ slot' = [slot EXCEPT ![t] = s]
                 /\ pc' = [pc EXCEPT ![t] = "alloc_check"]
                 /\ UNCHANGED <<idx, ret>>
    /\ UNCHANGED <<config, slotState, active_tickets, tickets, now, call, fees_paid>>

\* allocate_slot with the outcome of acquire(blocking=False) ignored: a slot
\* whose lock another thread holds is taken all the same.
AllocProbeIgnoringLock(t) ==
    /\ pc[t] = "scan"
    /\ IF idx[t] > Len(ScanOrder)
       THEN /\ pc' = Finished(pc, t)
            /\ ret' = [ret EXCEPT ![t] = RetNone]
            /\ idx' = [idx EXCEPT ![t] = 0]
            /\ UNCHANGED <<slot, lock>>
       ELSE LET s == ScanOrder[idx[t]] IN
            IF vehicle_type[s] # call[t].vehicle.vehicle_type
            THEN /\ idx' = [idx EXCEPT ![t] = idx[t] + 1]
                 /\ UNCHANGED <<pc, slot, lock, ret>>
            ELSE /\ lock' = Acquired(s, t)
                 /\ slot' = [slot EXCEPT ![t] = s]
                 /\ pc' = [pc EXCEPT ![t] = "alloc_check"]
                 /\ UNCHANGED <<idx, ret>>
    /\ UNCHANGED <<config, slotState, active_tickets, tickets, now, call, fees_paid>>

\* allocate_slot, one loop iteration up to the lock attempt (lines 62-68), or
\* the loop's end: return None, and park_vehicle returns None (lines 73, 97-99).
AllocProbe(t) ==
    /\ pc[t] = "scan"
    /\ IF idx[t] > Len(ScanOrder)
       THEN /\ pc' = Finished(pc, t)
            /\ ret' = [ret EXCEPT ![t] = RetNone]
            /\ idx' = [idx EXCEPT ![t] = 0]
            /\ UNCHANGED <<slot, lock>>
       ELSE LET s == ScanOrder[idx[t]] IN
            IF vehicle_type[s] # call[t].vehicle.vehicle_type
            THEN /\ idx' = [idx EXCEPT ![t] = idx[t] + 1]
                 /\ UNCHANGED <<pc, slot, lock, ret>>
            ELSE IF lock[s] # Unlocked
            THEN /\ idx' = [idx EXCEPT ![t] = idx[t] + 1]
                 /\ UNCHANGED <<pc, slot, lock, ret>>
            ELSE /\ lock' = Acquired(s, t)
                 /\ slot' = [slot EXCEPT ![t] = s]
                 /\ pc' = [pc EXCEPT ![t] = "alloc_check"]
                 /\ UNCHANGED <<idx, ret>>
    /\ UNCHANGED <<config, slotState, active_tickets, tickets, now, call, fees_paid>>

\* allocate_slot releasing the lock before it returns the slot (no hand-over).
AllocCheckReleasesFirst(t) ==
    /\ pc[t] = "alloc_check"
    /\ IF slot_status[slot[t]] = AVAILABLE
       THEN /\ pc' = [pc EXCEPT ![t] = "park_recheck"]
            /\ idx' = [idx EXCEPT ![t] = 0]
            /\ lock' = Released(slot[t])
       ELSE /\ pc' = [pc EXCEPT ![t] = "alloc_release"]
            /\ UNCHANGED <<idx, lock>>
    /\ UNCHANGED <<config, slotState, active_tickets, tickets, now, call, slot,
                   ret, fees_paid>>

\* allocate_slot line 69 marking the slot BOOKED as it hands it over.
AllocCheckReserves(t) ==
    /\ pc[t] = "alloc_check"
    /\ IF slot_status[slot[t]] = AVAILABLE
       THEN /\ pc' = [pc EXCEPT ![t] = "park_recheck"]
            /\ idx' = [idx EXCEPT ![t] = 0]
            /\ slot_status' = [slot_status EXCEPT ![slot[t]] = BOOKED]
       ELSE /\ pc' = [pc EXCEPT ![t] = "alloc_release"]
            /\ UNCHANGED <<idx, slot_status>>
    /\ UNCHANGED <<config, slot_vehicle, lock, active_tickets, tickets, now, call, slot,
                   ret, fees_paid>>

\* allocate_slot line 69: with the lock held, is the slot AVAILABLE?  If so the
\* slot is returned with its lock held (line 71) and park_vehicle goes on.
AllocCheck(t) ==
    /\ pc[t] = "alloc_check"
    /\ IF slot_status[slot[t]] = AVAILABLE
       THEN /\ pc' = [pc EXCEPT ![t] = "park_recheck"]
            /\ idx' = [idx EXCEPT ![t] = 0]
       ELSE /\ pc' = [pc EXCEPT ![t] = "alloc_release"]
            /\ UNCHANGED idx
    /\ UNCHANGED <<config, slotState, lock, active_tickets, tickets, now, call, slot,
                   ret, fees_paid>>

\* allocate_slot without line 72: the scan goes on with the lock still held.
AllocReleaseForgotten(t) ==
    /\ pc[t] = "alloc_release"
    /\ idx' = [idx EXCEPT ![t] = idx[t] + 1]
    /\ pc' = [pc EXCEPT ![t] = "scan"]
    /\ UNCHANGED <<config, slotState, lock, slot, active_tickets, tickets, now, call, ret,
                   fees_paid>>

\* allocate_slot line 72: the slot was BOOKED; release and go on scanning.
AllocRelease(t) ==
    /\ pc[t] = "alloc_release"
    /\ lock' = Released(slot[t])
    /\ slot' = [slot EXCEPT ![t] = NoSlot]
    /\ idx' = [idx EXCEPT ![t] = idx[t] + 1]
    /\ pc' = [pc EXCEPT ![t] = "scan"]
    /\ UNCHANGED <<config, slotState, active_tickets, tickets, now, call, ret, fees_paid>>

\* park_vehicle lines 102-103: the defensive re-check under the lock.
ParkRecheck(t) ==
    /\ pc[t] = "park_recheck"
    /\ IF slot_status[slot[t]] # AVAILABLE
       THEN /\ ret' = [ret EXCEPT ![t] = RetNone]
            /\ pc' = [pc EXCEPT ![t] = "park_finally"]
       ELSE /\ pc' = [pc EXCEPT ![t] = "slot_park_vehicle"]
            /\ UNCHANGED ret
    /\ UNCHANGED <<config, slotState, lock, active_tickets, tickets, now, call, idx,
                   slot, fees_paid>>

\* Slot.park line 37: self.vehicle = vehicle
SlotParkVehicle(t) ==
    /\ pc[t] = "slot_park_vehicle"
    /\ slot_vehicle' = [slot_vehicle EXCEPT ![slot[t]] = call[t].vehicle]
    /\ pc' = [pc EXCEPT ![t] = "slot_park_status"]
    /\ UNCHANGED <<config, slot_status, lock, active_tickets, tickets, now, call, idx,
                   slot, ret, fees_paid>>

\* Slot.park line 38: self.slot_status = SlotStatus.BOOKED
SlotParkStatus(t) ==
    /\ pc[t] = "slot_park_status"
    /\ slot_status' = [slot_status EXCEPT ![slot[t]] = BOOKED]
    /\ pc' = [pc EXCEPT ![t] = "park_ticket"]
    /\ UNCHANGED <<config, slot_vehicle, lock, active_tickets, tickets, now, call, idx,
                   slot, ret, fees_paid>>

\* park_vehicle lines 105-108: construct the Ticket, store it, return it.
ParkTicket(t) ==
    /\ pc[t] = "park_ticket"
    /\ LET tk == Ticket(slot[t], call[t].vehicle) IN
        /\ tickets' = tickets \cup {tk}
        /\ active_tickets' = (tk.ticket_id :> tk) @@ active_tickets
        /\ fees_paid' = (tk.ticket_id :> 0) @@ fees_paid
        /\ ret' = [ret EXCEPT ![t] = RetTicket(tk)]
    /\ pc' = [pc EXCEPT ![t] = "park_finally"]
    /\ UNCHANGED <<config, slotState, lock, now, call, idx, slot>>

\* park_vehicle line 110: finally: slot.lock.release(); the call ends.
ParkFinally(t) ==
    /\ pc[t] = "park_finally"
    /\ lock' = Released(slot[t])
    /\ slot' = [slot EXCEPT ![t] = NoSlot]
    /\ pc' = Finished(pc, t)
    /\ UNCHANGED <<config, slotState, active_tickets, tickets, now, call, idx, ret,
                   fees_paid>>

----------------------------------------------------------------------------
\* unpark_vehicle

\* The dict without key k (dict.pop's effect on the store).
Without(d, k) == [j \in DOMAIN d \ {k} |-> d[j]]

\* A caller enters unpark_vehicle(ticket) with a Ticket it was given earlier;
\* lines 113-115: the membership test on active_tickets.
StartUnpark(t, tk) ==
    /\ pc[t] = "idle"
    /\ call' = [call EXCEPT ![t] = UnparkCall(tk)]
    /\ IF tk.ticket_id \notin DOMAIN active_tickets
       THEN /\ ret' = [ret EXCEPT ![t] = Raise(InvalidTicket)]
            /\ pc' = Finished(pc, t)
            /\ UNCHANGED slot
       ELSE /\ slot' = [slot EXCEPT ![t] = tk.slot]
            /\ pc' = [pc EXCEPT ![t] = "unpark_acquire"]
            /\ UNCHANGED ret
    /\ UNCHANGED <<config, slotState, lock, active_tickets, tickets, now, idx, fees_paid>>

\* line 117 with the lock taken whether or not another thread holds it.
UnparkAcquireWithoutWaiting(t) ==
    /\ pc[t] = "unpark_acquire"
    /\ lock' = Acquired(slot[t], t)
    /\ ret' = [ret EXCEPT ![t] = RetFee(calculate_price(call[t].ticket.entry_time, now))]
    /\ pc' = [pc EXCEPT ![t] = "slot_unpark_vehicle"]
    /\ UNCHANGED <<config, slotState, active_tickets, tickets, now, call, idx, slot,
                   fees_paid>>

\* line 117: slot.lock.acquire(), blocking until the lock is free; line 119:
\* parking_fee = calculate_price(ticket.entry_time, time.time()).
UnparkAcquire(t) ==
    /\ pc[t] = "unpark_acquire"
    /\ lock[slot[t]] = Unlocked
    /\ lock' = Acquired(slot[t], t)
    /\ ret' = [ret EXCEPT ![t] = RetFee(calculate_price(call[t].ticket.entry_time, now))]
    /\ pc' = [pc EXCEPT ![t] = "slot_unpark_vehicle"]
    /\ UNCHANGED <<config, slotState, active_tickets, tickets, now, call, idx, slot,
                   fees_paid>>

\* Slot.unpark without line 41: the occupant is left in place.
SlotUnparkVehicleKept(t) ==
    /\ pc[t] = "slot_unpark_vehicle"
    /\ pc' = [pc EXCEPT ![t] = "slot_unpark_status"]
    /\ UNCHANGED <<config, slotState, lock, active_tickets, tickets, now, call, idx,
                   slot, ret, fees_paid>>

\* Slot.unpark line 41: self.vehicle = None
SlotUnparkVehicle(t) ==
    /\ pc[t] = "slot_unpark_vehicle"
    /\ slot_vehicle' = [slot_vehicle EXCEPT ![call[t].ticket.slot] = NoVehicle]
    /\ pc' = [pc EXCEPT ![t] = "slot_unpark_status"]
    /\ UNCHANGED <<config, slot_status, lock, active_tickets, tickets, now, call, idx,
                   slot, ret, fees_paid>>

\* Slot.unpark line 42: self.slot_status = SlotStatus.AVAILABLE
SlotUnparkStatus(t) ==
    /\ pc[t] = "slot_unpark_status"
    /\ slot_status' = [slot_status EXCEPT ![call[t].ticket.slot] = AVAILABLE]
    /\ pc' = [pc EXCEPT ![t] = "unpark_pop"]
    /\ UNCHANGED <<config, slot_vehicle, lock, active_tickets, tickets, now, call, idx,
                   slot, ret, fees_paid>>

\* lines 122-123 with the entry read (active_tickets[ticket_id]) and not popped.
UnparkPopKeepsEntry(t) ==
    /\ pc[t] = "unpark_pop"
    /\ IF call[t].ticket.ticket_id \in DOMAIN active_tickets
       THEN UNCHANGED ret
       ELSE ret' = [ret EXCEPT ![t] = Raise(KeyError)]
    /\ pc' = [pc EXCEPT ![t] = "unpark_finally"]
    /\ UNCHANGED <<config, slotState, lock, active_tickets, tickets, now, call, idx, slot,
                   fees_paid>>

\* lines 122-123: active_tickets.pop(ticket_id) raises KeyError when the id is
\* gone; otherwise the entry is removed and parking_fee is returned.
UnparkPop(t) ==
    /\ pc[t] = "unpark_pop"
    /\ LET id == call[t].ticket.ticket_id IN
       IF id \in DOMAIN active_tickets
       THEN /\ active_tickets' = Without(active_tickets, id)
            /\ UNCHANGED ret
       ELSE /\ ret' = [ret EXCEPT ![t] = Raise(KeyError)]
            /\ UNCHANGED active_tickets
    /\ pc' = [pc EXCEPT ![t] = "unpark_finally"]
    /\ UNCHANGED <<config, slotState, lock, tickets, now, call, idx, slot, fees_paid>>

\* line 125 without the finally: the lock is released only when the fee is
\* returned, not when the try block raises.
UnparkReleaseOnSuccessOnly(t) ==
    /\ pc[t] = "unpark_finally"
    /\ lock' = IF ret[t].kind = "fee" THEN Released(slot[t]) ELSE lock
    /\ slot' = [slot EXCEPT ![t] = NoSlot]
    /\ fees_paid' = IF ret[t].kind = "fee"
                    THEN [fees_paid EXCEPT ![call[t].ticket.ticket_id] = @ + 1]
                    ELSE fees_paid
    /\ pc' = Finished(pc, t)
    /\ UNCHANGED <<config, slotState, active_tickets, tickets, now, call, idx, ret>>

\* line 125: finally: slot.lock.release(); the call ends.
UnparkFinally(t) ==
    /\ pc[t] = "unpark_finally"
    /\ lock' = Released(slot[t])
    /\ slot' = [slot EXCEPT ![t] = NoSlot]
    /\ fees_paid' = IF ret[t].kind = "fee"
                    THEN [fees_paid EXCEPT ![call[t].ticket.ticket_id] = @ + 1]
                    ELSE fees_paid
    /\ pc' = Finished(pc, t)
    /\ UNCHANGED <<config, slotState, active_tickets, tickets, now, call, idx, ret>>

\* The caller takes the call's outcome; the thread is free for another call.
Collect(t) ==
    /\ pc[t] = "done"
    /\ pc' = [pc EXCEPT ![t] = "idle"]
    /\ call' = [call EXCEPT ![t] = NoCall]
    /\ ret' = [ret EXCEPT ![t] = NoResult]
    /\ UNCHANGED <<slotState, lock, active_tickets, tickets, now, idx, slot, fees_paid>>

Return(t) == Collect(t) /\ UNCHANGED config

\* The uuid supply is not used up by the calls already under way.
TicketsLeft == Cardinality(tickets) + Cardinality(ParksBeforeMint) < MaxTickets

----------------------------------------------------------------------------
Next ==
    \/ \E t \in Threads, v \in Vehicles : TicketsLeft /\ StartPark(t, v)
    \/ \E t \in Threads : AllocProbe(t)
    \/ \E t \in Threads : AllocCheck(t)
    \/ \E t \in Threads : AllocRelease(t)
    \/ \E t \in Threads : ParkRecheck(t)
    \/ \E t \in Threads : SlotParkVehicle(t)
    \/ \E t \in Threads : SlotParkStatus(t)
    \/ \E t \in Threads : ParkTicket(t)
    \/ \E t \in Threads : ParkFinally(t)
    \/ \E t \in Threads, tk \in tickets : StartUnpark(t, tk)
    \/ \E t \in Threads : UnparkAcquire(t)
    \/ \E t \in Threads : SlotUnparkVehicle(t)
    \/ \E t \in Threads : SlotUnparkStatus(t)
    \/ \E t \in Threads : UnparkPop(t)
    \/ \E t \in Threads : UnparkFinally(t)
    \/ \E t \in Threads : Return(t)

Spec == Init /\ [][Next]_vars

----------------------------------------------------------------------------
\* Properties of the concurrent service (Spec)

LiveTickets == {active_tickets[id] : id \in DOMAIN active_tickets}
LiveTicketsOn(s) == {tk \in LiveTickets : tk.slot = s}
HeldBy(t) == {s \in SlotIds : lock[s] = t}

\* The statements between an acquire of a slot's lock and its release.
HoldingPcs ==
    {"alloc_check", "alloc_release", "park_recheck", "slot_park_vehicle",
     "slot_park_status", "park_ticket", "park_finally", "slot_unpark_vehicle",
     "slot_unpark_status", "unpark_pop", "unpark_finally"}

\* C1: in every reachable state no slot is referenced by two different
\* tickets that are both present in active_tickets.
C1_NoSlotWithTwoLiveTickets ==
    \A a \in LiveTickets, b \in LiveTickets : a # b => a.slot # b.slot

\* C3: a slot is BOOKED if and only if exactly one ticket of active_tickets
\* references it, and that ticket's vehicle is the slot's occupant.  Stated
\* for the slots whose lock is free: inside a held lock the writes to the slot
\* and to the store are separate statements.
C3_BookedIffOneLiveTicket ==
    \A s \in SlotIds : lock[s] = Unlocked =>
        /\ slot_status[s] = BOOKED <=> Cardinality(LiveTicketsOn(s)) = 1
        /\ \A tk \in LiveTicketsOn(s) : slot_vehicle[s] = tk.vehicle

\* C4: of the unpark_vehicle calls made with one ticket, one returns a fee and
\* every other one fails with the "Invalid or expired ticket" error.
C4_SecondUnparkIsInvalidTicket ==
    /\ \A id \in DOMAIN fees_paid : fees_paid[id] <= 1
    /\ \A t \in Threads : (pc[t] = "done" /\ call[t].op = "unpark") =>
           \/ ret[t].kind = "fee"
           \/ ret[t] = Raise(InvalidTicket)

\* C5: a thread holds exactly the lock of the slot it is working on, from the
\* acquire to the release of each exit path, and no lock otherwise: a finished
\* call holds none, and every release is of a lock the thread holds.
C5_LockHeldExactlyWhileWorking ==
    \A t \in Threads :
        HeldBy(t) = IF pc[t] \in HoldingPcs THEN {slot[t]} ELSE {}

\* C5 witness: a call that raised after taking the lock has ended, holding nothing.
C5_Witness ==
    \E t \in Threads : pc[t] = "done" /\ ret[t] = Raise(KeyError) /\ HeldBy(t) = {}

\* The statements of park_vehicle up to and including its re-check.
PreCommitPcs == {"scan", "alloc_check", "alloc_release", "park_recheck"}
\* The step is one of thread t.
Moves(t) == pc'[t] # pc[t] \/ idx'[t] # idx[t]
\* The step ends a call of thread t that returns None.
ReturnsNone(t) == pc[t] # "done" /\ pc'[t] = "done" /\ ret'[t] = RetNone

\* C8: a park_vehicle call that returns None holds no slot lock when it
\* returns and has changed no slot's status or occupant and nothing in
\* active_tickets.  None is decided only at the end of the scan or at the
\* re-check; up to there, and in the release that follows a failed re-check,
\* no step of the call writes a slot or the store; and a call that has gone
\* past the re-check does not come back before it.
C8_NoneLeavesNothing ==
    [][\A t \in Threads :
          /\ (ret'[t] = RetNone /\ ret[t] # RetNone) => pc[t] \in {"scan", "park_recheck"}
          /\ (Moves(t) /\ pc[t] \in PreCommitPcs)
                => /\ UNCHANGED <<slot_status, slot_vehicle, active_tickets>>
                   /\ pc'[t] \in PreCommitPcs \cup {"slot_park_vehicle", "park_finally", "done"}
          /\ (Moves(t) /\ pc'[t] \in PreCommitPcs) => pc[t] \in PreCommitPcs \cup {"idle"}
          /\ (Moves(t) /\ pc[t] = "park_finally" /\ ret[t] = RetNone)
                => UNCHANGED <<slot_status, slot_vehicle, active_tickets>>
          /\ ReturnsNone(t) => \A s \in SlotIds : lock'[s] # t
      ]_vars

\* C8 witness: a park_vehicle call has returned None, every slot of its
\* category being BOOKED, and holds no lock.
C8_Witness ==
    \E t \in Threads :
        /\ pc[t] = "done" /\ call[t].op = "park" /\ ret[t] = RetNone
        /\ HeldBy(t) = {}
        /\ \E s \in SlotIds : vehicle_type[s] = call[t].vehicle.vehicle_type
                              /\ slot_status[s] = BOOKED

\* The statements of a call that never wait: everything but lock.acquire().
RunStep(t) ==
    \/ AllocProbe(t) \/ AllocCheck(t) \/ AllocRelease(t) \/ ParkRecheck(t)
    \/ SlotParkVehicle(t) \/ SlotParkStatus(t) \/ ParkTicket(t) \/ ParkFinally(t)
    \/ SlotUnparkVehicle(t) \/ SlotUnparkStatus(t) \/ UnparkPop(t) \/ UnparkFinally(t)

\* Fair scheduling: a thread that can run a statement eventually runs it, and
\* a thread waiting in lock.acquire() gets the lock if it is free again and again.
Fairness ==
    \A t \in Threads : WF_vars(RunStep(t)) /\ SF_vars(UnparkAcquire(t))

\* The uuid supply of the liveness check.
FairTicketsLeft == Cardinality(tickets) + Cardinality(ParksBeforeMint) < MaxTicketsFair

FairNext ==
    \/ \E t \in Threads, v \in Vehicles : FairTicketsLeft /\ StartPark(t, v)
    \/ \E t \in Threads, tk \in tickets : StartUnpark(t, tk)
    \/ \E t \in Threads : RunStep(t)
    \/ \E t \in Threads : UnparkAcquire(t)
    \/ \E t \in Threads : Return(t)

FairSpec == Init /\ [][FairNext]_vars /\ Fairness

InCall(t) == pc[t] \notin {"idle", "done"}

----------------------------------------------------------------------------
\* A race of park_vehicle calls (SpecRace): the facility holds the vehicles
\* parked earlier (at time 0), every thread makes at most one park_vehicle
\* call, and every call starts before any of them has returned.

\* The facility after earlier, finished calls left the slots of B booked.
ParkedEarlier(B, occ) ==
    LET id(s) == Cardinality({x \in B : x <= s})
        tk(s) == [ticket_id |-> id(s), slot |-> s, vehicle |-> occ[s], entry_time |-> 0]
    IN  /\ tickets = {tk(s) : s \in B}
        /\ active_tickets = [i \in 1..Cardinality(B) |-> tk(CHOOSE s \in B : id(s) = i)]
        /\ fees_paid = [i \in 1..Cardinality(B) |-> 0]
        /\ slot_status = [s \in SlotIds |-> IF s \in B THEN BOOKED ELSE AVAILABLE]
        /\ slot_vehicle = [s \in SlotIds |-> IF s \in B THEN occ[s] ELSE NoVehicle]
        /\ lock = [s \in SlotIds |-> Unlocked]

RaceInit ==
    /\ floors = MainFloors
    /\ vehicle_type = MainSlotType
    /\ driver = NoDriver
    /\ \E B \in SUBSET DOMAIN MainSlotType : \E occ \in [B -> AllVehicles] :
          /\ \A s \in B : occ[s].vehicle_type = MainSlotType[s]
          /\ ParkedEarlier(B, occ)
    /\ now \in ClockSteps
    /\ InitThreads
    /\ RentalInit

\* No call of the race has returned yet.
RaceOpen == \A u \in Threads : pc[u] # "done"

RaceNext ==
    \/ \E t \in Threads, v \in AllVehicles :
          RaceOpen /\ call[t] = NoCall /\ StartPark(t, v)
    \/ \E t \in Threads : AllocProbe(t)
    \/ \E t \in Threads : AllocCheck(t)
    \/ \E t \in Threads : AllocRelease(t)
    \/ \E t \in Threads : ParkRecheck(t)
    \/ \E t \in Threads : SlotParkVehicle(t)
    \/ \E t \in Threads : SlotParkStatus(t)
    \/ \E t \in Threads : ParkTicket(t)
    \/ \E t \in Threads : ParkFinally(t)

SpecRace == RaceInit /\ [][RaceNext]_vars

\* The slots of category c that were AVAILABLE when the race began: those no
\* ticket of an earlier call is parked on.
FreeAtStart(c) ==
    {s \in SlotIds : vehicle_type[s] = c
                     /\ \A tk \in tickets : tk.entry_time < now => tk.slot # s}
\* The threads whose call is park_vehicle of a vehicle of category c.
Racers(c) ==
    {t \in Threads : call[t].op = "park" /\ call[t].vehicle.vehicle_type = c}
RaceOver(c) ==
    /\ Cardinality(FreeAtStart(c)) = 1
    /\ Cardinality(Racers(c)) >= 2
    /\ \A t \in Racers(c) : pc[t] = "done"

\* C2: when two or more park_vehicle calls of one category run concurrently
\* against a facility with exactly one AVAILABLE slot of that category, exactly
\* one call returns a ticket, bound to that slot, and every other returns None.
C2_OneWinnerPerFreeSlot ==
    \A c \in VehicleCategory : RaceOver(c) =>
        \E w \in Racers(c) :
            /\ ret[w].kind = "ticket"
            /\ ret[w].ticket.slot \in FreeAtStart(c)
            /\ \A o \in Racers(c) \ {w} : ret[o] = RetNone

\* C2 witness: two park_vehicle calls for cars have raced for the one free CAR slot.
C2_Witness == RaceOver(CAR)

----------------------------------------------------------------------------
\* The scenario (SpecScenario): one floor holding one CAR slot S1, and a
\* single caller making five calls one after the other, as main() does:
\* park(A), park(B), unpark(T1), park(B), unpark(T1).

S1 == 1
Cars == {v \in AllVehicles : v.vehicle_type = CAR}
\* ticket1, ticket2 before their assignment.
NoTicket == [ticket_id |-> 0]

\* No call is under way and every outcome has been taken.
Quiet == \A t \in Threads : pc[t] = "idle"

ScenarioInit ==
    /\ floors = << <<S1>> >>
    /\ vehicle_type = (S1 :> CAR)
    /\ \E a \in Cars, b \in Cars :
          driver = [step |-> 1, carA |-> a, carB |-> b, ticket1 |-> NoTicket,
                    ticket2 |-> NoTicket]
    /\ InitEmpty
    /\ InitThreads
    /\ RentalInit

\* The caller makes its next call.
ScenarioCall(t) ==
    /\ Quiet
    /\ \/ driver.step = 1 /\ StartPark(t, driver.carA)
       \/ driver.step \in {2, 4} /\ StartPark(t, driver.carB)
       \/ driver.step \in {3, 5} /\ driver.ticket1.ticket_id # 0
                                 /\ StartUnpark(t, driver.ticket1)

\* The simulated gap before the first unpark: time.time() jumps ahead.
ScenarioGap ==
    /\ Quiet
    /\ driver.step = 3
    /\ now = 0
    /\ \E d \in ClockSteps : now' = now + d
    /\ UNCHANGED <<config, slotState, lock, active_tickets, tickets, pc, call, idx,
                   slot, ret, fees_paid>>

\* ticket1 = ps.park_vehicle(...), fee = ps.unpark_vehicle(...): the caller
\* keeps what the call returned and moves to its next statement.
ScenarioReturn(t) ==
    /\ Collect(t)
    /\ driver' = [driver EXCEPT
                    !.step = @ + 1,
                    !.ticket1 = IF driver.step = 1 /\ ret[t].kind = "ticket"
                                THEN ret[t].ticket ELSE @,
                    !.ticket2 = IF driver.step = 4 /\ ret[t].kind = "ticket"
                                THEN ret[t].ticket ELSE @]
    /\ UNCHANGED <<floors, vehicle_type, rental>>

ScenarioNext ==
    \/ \E t \in Threads : ScenarioCall(t)
    \/ ScenarioGap
    \/ \E t \in Threads : ScenarioReturn(t)
    \/ \E t \in Threads : AllocProbe(t)
    \/ \E t \in Threads : AllocCheck(t)
    \/ \E t \in Threads : AllocRelease(t)
    \/ \E t \in Threads : ParkRecheck(t)
    \/ \E t \in Threads : SlotParkVehicle(t)
    \/ \E t \in Threads : SlotParkStatus(t)
    \/ \E t \in Threads : ParkTicket(t)
    \/ \E t \in Threads : ParkFinally(t)
    \/ \E t \in Threads : UnparkAcquire(t)
    \/ \E t \in Threads : SlotUnparkVehicle(t)
    \/ \E t \in Threads : SlotUnparkStatus(t)
    \/ \E t \in Threads : UnparkPop(t)
    \/ \E t \in Threads : UnparkFinally(t)

SpecScenario == ScenarioInit /\ [][ScenarioNext]_vars

\* The fee f equals the whole number n.
FeeIs(f, n) == f.num = n * f.den

\* C6: park(A) returns T1 bound to S1; park(B) returns None; unpark(T1)
\* returns a fee, 100 after two hours, and leaves S1 AVAILABLE; park(B) returns
\* T2 bound to S1; the second unpark(T1) fails with the invalid-ticket error and
\* leaves S1 BOOKED with T2 live.
C6_Scenario ==
    \A t \in Threads : pc[t] = "done" =>
        /\ driver.step = 1 =>
              /\ ret[t].kind = "ticket"
              /\ ret[t].ticket.slot = S1
              /\ ret[t].ticket.vehicle = driver.carA
        /\ driver.step = 2 => ret[t] = RetNone
        /\ driver.step = 3 =>
              /\ ret[t].kind = "fee"
              /\ now - driver.ticket1.entry_time = 2 * SecondsPerHour
                    => FeeIs(ret[t].fee, 100)
              /\ slot_status[S1] = AVAILABLE
              /\ slot_vehicle[S1] = NoVehicle
        /\ driver.step = 4 =>
              /\ ret[t].kind = "ticket"
              /\ ret[t].ticket.slot = S1
              /\ ret[t].ticket.vehicle = driver.carB
              /\ ret[t].ticket.ticket_id # driver.ticket1.ticket_id
        /\ driver.step = 5 =>
              /\ ret[t] = Raise(InvalidTicket)
              /\ slot_status[S1] = BOOKED
              /\ LiveTickets = {driver.ticket2}

\* C6 witness: the fifth call has ended, after a first unpark that followed
\* a two-hour stay.
C6_Witness ==
    /\ driver.step = 5
    /\ now = 2 * SecondsPerHour
    /\ \E t \in Threads : pc[t] = "done" /\ ret[t].kind = "error"

----------------------------------------------------------------------------
\* Calls made one at a time (SpecSeq): a call starts only when no other call
\* is under way and every outcome has been taken.  The facility is one of
\* several layouts of the same three slots.

SeqFacilities ==
    { << <<3, 1>>, <<2>> >>, << <<2>>, <<1, 3>> >>, << <<1, 2, 3>> >> }

SeqInit ==
    /\ floors \in SeqFacilities
    /\ vehicle_type = MainSlotType
    /\ driver = NoDriver
    /\ InitEmpty
    /\ InitThreads
    /\ RentalInit

SeqNext ==
    \/ \E t \in Threads, v \in AllVehicles : Quiet /\ TicketsLeft /\ StartPark(t, v)
    \/ \E t \in Threads, tk \in tickets : Quiet /\ StartUnpark(t, tk)
    \/ \E t \in Threads : AllocProbe(t)
    \/ \E t \in Threads : AllocCheck(t)
    \/ \E t \in Threads : AllocRelease(t)
    \/ \E t \in Threads : ParkRecheck(t)
    \/ \E t \in Threads : SlotParkVehicle(t)
    \/ \E t \in Threads : SlotParkStatus(t)
    \/ \E t \in Threads : ParkTicket(t)
    \/ \E t \in Threads : ParkFinally(t)
    \/ \E t \in Threads : UnparkAcquire(t)
    \/ \E t \in Threads : SlotUnparkVehicle(t)
    \/ \E t \in Threads : SlotUnparkStatus(t)
    \/ \E t \in Threads : UnparkPop(t)
    \/ \E t \in Threads : UnparkFinally(t)
    \/ \E t \in Threads : Return(t)

SpecSeq == SeqInit /\ [][SeqNext]_vars

\* Slot a comes before slot b: on an earlier floor, or earlier on the same floor.
Precedes(a, b) ==
    \E f \in 1..Len(floors), g \in 1..Len(floors) :
        \E i \in 1..Len(floors[f]), j \in 1..Len(floors[g]) :
            /\ floors[f][i] = a
            /\ floors[g][j] = b
            /\ f < g \/ (f = g /\ i < j)
\* The AVAILABLE slots of category c.
AvailableOf(c) == {s \in SlotIds : vehicle_type[s] = c /\ slot_status[s] = AVAILABLE}
\* s is the first AVAILABLE slot of category c.
FirstFit(c, s) == s \in AvailableOf(c) /\ \A o \in AvailableOf(c) \ {s} : Precedes(s, o)

\* C7: with no other operation in progress, park_vehicle(v) returns a ticket
\* if and only if a slot of v's category is AVAILABLE, bound to the first such
\* slot in floor order, then slot order; never to a slot of another category.
C7_FirstFitInScanOrder ==
    \A t \in Threads : call[t].op = "park" =>
        LET c == call[t].vehicle.vehicle_type IN
        \* the slot allocate_slot hands over is the first AVAILABLE one
        /\ pc[t] \in {"park_recheck", "slot_park_vehicle", "slot_park_status"}
              => FirstFit(c, slot[t])
        /\ (pc[t] = "park_finally" /\ ret[t].kind = "ticket")
              => ret[t].ticket.slot = slot[t]
        \* None only when no slot of the category is AVAILABLE
        /\ (pc[t] = "done" /\ ret[t] = RetNone) => AvailableOf(c) = {}
        \* a ticket's slot is of the category, now booked by the vehicle, and
        \* precedes every slot of the category that is still AVAILABLE
        /\ (pc[t] = "done" /\ ret[t] # RetNone) =>
              /\ ret[t].kind = "ticket"
              /\ vehicle_type[ret[t].ticket.slot] = c
              /\ slot_status[ret[t].ticket.slot] = BOOKED
              /\ slot_vehicle[ret[t].ticket.slot] = call[t].vehicle
              /\ \A o \in AvailableOf(c) : Precedes(ret[t].ticket.slot, o)

\* C7 witness: a call got the second slot of its category, the first being booked.
C7_Witness ==
    \E t \in Threads :
        /\ pc[t] = "done" /\ call[t].op = "park" /\ ret[t].kind = "ticket"
        /\ \E s \in SlotIds :
              /\ vehicle_type[s] = call[t].vehicle.vehicle_type
              /\ Precedes(s, ret[t].ticket.slot)

----------------------------------------------------------------------------
\* PricingService on its own (SpecPrice): threads call calculate_price with
\* entry and exit times drawn from PriceTimes, exit before entry included.

PriceTimes == {0, 1, 1800, 3599, 3600, 3601, 5400, 7200}
PriceCallOf(e, x) == [op |-> "price", entry_time |-> e, exit_time |-> x]

\* pricing_service.calculate_price(entry_time, exit_time)
PriceCall(t, e, x) ==
    /\ pc[t] = "idle"
    /\ call' = [call EXCEPT ![t] = PriceCallOf(e, x)]
    /\ ret' = [ret EXCEPT ![t] = RetFee(calculate_price(e, x))]
    /\ pc' = Finished(pc, t)
    /\ UNCHANGED <<config, slotState, lock, active_tickets, tickets, now, idx, slot,
                   fees_paid>>

PriceNext ==
    \/ \E t \in Threads, e \in PriceTimes, x \in PriceTimes : PriceCall(t, e, x)
    \/ \E t \in Threads : Return(t)

SpecPrice == Init /\ [][PriceNext]_vars

\* Fee f is at most fee g (fractions compared by cross-multiplication).
FeeLeq(f, g) == f.num * g.den <= g.num * f.den
Priced(t) == pc[t] = "done" /\ call[t].op = "price"
Stay(t) == call[t].exit_time - call[t].entry_time

\* C10: for a fixed entry time the fee is non-decreasing in the exit time,
\* and every stay shorter than one hour is billed exactly one unit, 50.
C10_FeeMonotoneAndMinimumUnit ==
    /\ \A t \in Threads, u \in Threads :
          (/\ Priced(t) /\ Priced(u)
           /\ call[t].entry_time = call[u].entry_time
           /\ call[t].exit_time <= call[u].exit_time)
          => FeeLeq(ret[t].fee, ret[u].fee)
    /\ \A t \in Threads :
          (Priced(t) /\ Stay(t) >= 0 /\ Stay(t) < SecondsPerHour)
          => FeeIs(ret[t].fee, 50)

\* C10 witness: one entry time priced for a stay under an hour and for a
\* longer stay.
C10_Witness ==
    \E t \in Threads, u \in Threads :
        /\ Priced(t) /\ Priced(u)
        /\ call[t].entry_time = call[u].entry_time
        /\ Stay(t) > 0 /\ Stay(t) < SecondsPerHour /\ Stay(u) > SecondsPerHour

----------------------------------------------------------------------------
\* CarRental.py BookingService (SpecRental): threads call book() on the
\* vehicles of one shared dict, through either BookingService object.

\* What no call of BookingService writes.
parking == <<floors, vehicle_type, slot_status, slot_vehicle, lock, active_tickets,
             tickets, now, idx, slot, fees_paid, driver>>

\* book(user_id, vehicle_id, hours) on service b.  found_booked records, for
\* the properties, whether the vehicle was BOOKED when the call was made.
BookCall(b, v, h) ==
    [op |-> "book", service |-> b, vehicle_id |-> v, hours |-> h,
     found_booked |-> v \in RentalIds /\ vehicle_status[v] = BOOKED]
RetPrice(p) == [kind |-> "price", price |-> p]

\* DefaultPricing.calculate: PRICE_MAP[vehicle.vehicle_type] * hours
calculate(v, hours) == PRICE_MAP[RentalVehicleType[v]] * hours

\* line 88: vehicle = self.vehicles[vehicle_id], a KeyError for an unknown id
\* (line 89 never fires: a Vehicle object is truthy).
StartBook(t, b, v, h) ==
    /\ pc[t] = "idle"
    /\ call' = [call EXCEPT ![t] = BookCall(b, v, h)]
    /\ IF v \notin RentalIds
       THEN /\ ret' = [ret EXCEPT ![t] = Raise(KeyError)]
            /\ pc' = Finished(pc, t)
       ELSE /\ pc' = [pc EXCEPT ![t] = "book_acquire"]
            /\ UNCHANGED ret
    /\ UNCHANGED <<parking, rental>>

\* line 92 with the lock taken whether or not another thread holds it.
BookAcquireWithoutWaiting(t) ==
    /\ pc[t] = "book_acquire"
    /\ vehicle_lock' = [vehicle_lock EXCEPT ![call[t].vehicle_id] = t]
    /\ pc' = [pc EXCEPT ![t] = "book_check"]
    /\ UNCHANGED <<parking, vehicle_status, bookings, call, ret>>

\* line 92: with vehicle.lock -- blocks until the lock is free.
BookAcquire(t) ==
    /\ pc[t] = "book_acquire"
    /\ vehicle_lock[call[t].vehicle_id] = Unlocked
    /\ vehicle_lock' = [vehicle_lock EXCEPT ![call[t].vehicle_id] = t]
    /\ pc' = [pc EXCEPT ![t] = "book_check"]
    /\ UNCHANGED <<parking, vehicle_status, bookings, call, ret>>

\* lines 93-96: not AVAILABLE: return (None); else compute the price.
BookCheck(t) ==
    /\ pc[t] = "book_check"
    /\ IF vehicle_status[call[t].vehicle_id] # AVAILABLE
       THEN /\ ret' = [ret EXCEPT ![t] = RetNone]
            /\ pc' = [pc EXCEPT ![t] = "book_release"]
       ELSE /\ ret' = [ret EXCEPT ![t] =
                          RetPrice(calculate(call[t].vehicle_id, call[t].hours))]
            /\ pc' = [pc EXCEPT ![t] = "book_status"]
    /\ UNCHANGED <<parking, rental, call>>

\* line 97: vehicle.vehicle_status = VehicleStatus.BOOKED
BookStatus(t) ==
    /\ pc[t] = "book_status"
    /\ vehicle_status' = [vehicle_status EXCEPT ![call[t].vehicle_id] = BOOKED]
    /\ pc' = [pc EXCEPT ![t] = "book_release"]
    /\ UNCHANGED <<parking, vehicle_lock, bookings, call, ret>>

\* lines 95, 99: return, leaving the with block: the lock is released.
BookRelease(t) ==
    /\ pc[t] = "book_release"
    /\ vehicle_lock' = [vehicle_lock EXCEPT ![call[t].vehicle_id] = Unlocked]
    /\ bookings' = IF ret[t].kind = "price"
                   THEN [bookings EXCEPT ![call[t].vehicle_id] = @ + 1]
                   ELSE bookings
    /\ pc' = Finished(pc, t)
    /\ UNCHANGED <<parking, vehicle_status, call, ret>>

RentalNext ==
    \/ \E t \in Threads, b \in BookingServices,
          v \in RentalIds \cup {UnknownVehicleId}, h \in BookingHours :
          StartBook(t, b, v, h)
    \/ \E t \in Threads : BookAcquire(t)
    \/ \E t \in Threads : BookCheck(t)
    \/ \E t \in Threads : BookStatus(t)
    \/ \E t \in Threads : BookRelease(t)
    \/ \E t \in Threads : Return(t)

SpecRental == Init /\ [][RentalNext]_vars

\* Thread t's book call has returned.
Booked(t) == pc[t] = "done" /\ call[t].op = "book"

\* C11: for any vehicle, of all the book calls on it, through either
\* BookingService, at most one returns a price; every call made once the
\* vehicle is BOOKED returns no price; and a BOOKED vehicle stays BOOKED.
C11_AtMostOneBookingPerVehicle ==
    [][/\ \A v \in RentalIds :
             /\ bookings'[v] <= 1
             /\ vehicle_status[v] = BOOKED => vehicle_status'[v] = BOOKED
       /\ \A t \in Threads :
             (pc'[t] = "done" /\ call'[t].op = "book" /\ call'[t].found_booked)
                => ret'[t] = RetNone
      ]_vars

\* C11 witness: two calls on one vehicle, made through different services
\* while it was AVAILABLE, have returned: one a price, the other nothing.
C11_Witness ==
    \E t \in Threads, u \in Threads :
        /\ Booked(t) /\ Booked(u)
        /\ call[t].vehicle_id = call[u].vehicle_id
        /\ call[t].service # call[u].service
        /\ ~call[t].found_booked /\ ~call[u].found_booked
        /\ ret[t].kind = "price" /\ ret[u] = RetNone

----------------------------------------------------------------------------
\* Further properties of the concurrent service (Spec)

\* The statements of unpark_vehicle after the membership test of line 113.
PastLookupPcs ==
    {"unpark_acquire", "slot_unpark_vehicle", "slot_unpark_status", "unpark_pop",
     "unpark_finally"}
\* Thread t is in unpark_vehicle, past the lookup of its ticket.
PastLookup(t) == call[t].op = "unpark" /\ pc[t] \in PastLookupPcs

\* C12: no two unpark_vehicle calls for the same ticket are past the
\* ticket-store lookup at the same time.
C12_OneUnparkPastLookup ==
    \A t \in Threads, u \in Threads :
        (t # u /\ PastLookup(t) /\ PastLookup(u))
            => call[t].ticket.ticket_id # call[u].ticket.ticket_id

\* A park call holding its slot's lock has just found the slot AVAILABLE: in
\* allocate_slot (line 69) or in park_vehicle's re-check (line 102).
ObservedAvailable(t) ==
    /\ call[t].op = "park"
    /\ pc[t] \in {"park_recheck", "slot_park_vehicle"}

\* C13: whenever a park operation holding a slot's lock observes the slot as
\* AVAILABLE, no ticket referencing that slot is present in active_tickets.
C13_AvailableUnderLockHasNoLiveTicket ==
    \A t \in Threads : ObservedAvailable(t) => LiveTicketsOn(slot[t]) = {}

\* The step makes thread t's unpark_vehicle call a failing one.
UnparkFails(t) ==
    call'[t].op = "unpark" /\ ret'[t].kind = "error" /\ ret[t].kind # "error"

\* C14: an unpark_vehicle call that raises has changed no slot's status or
\* occupant and nothing in active_tickets: a call fails only at the store
\* lookup, as its first statement, with the invalid-or-expired-ticket error,
\* and that statement writes neither a slot nor the store.
C14_FailedUnparkChangesNothing ==
    [][\A t \in Threads : UnparkFails(t) =>
          /\ pc[t] = "idle"
          /\ pc'[t] = "done"
          /\ ret'[t] = Raise(InvalidTicket)
          /\ UNCHANGED <<slot_status, slot_vehicle, active_tickets>>
      ]_vars

\* The statements that read or write the status or the occupant of slot[t]:
\* allocate_slot line 69, park_vehicle line 102, Slot.park, Slot.unpark.
SlotAccessPcs ==
    {"alloc_check", "park_recheck", "slot_park_vehicle", "slot_park_status",
     "slot_unpark_vehicle", "slot_unpark_status"}
\* The status or the occupant of slot s changes in the step.
SlotWritten(s) ==
    slot_status'[s] # slot_status[s] \/ slot_vehicle'[s] # slot_vehicle[s]

\* C15: at most one thread at a time is between acquiring and releasing a
\* given slot's lock, and every read or write of a slot's status or occupant
\* by park_vehicle, allocate_slot or unpark_vehicle is made by the thread
\* that holds that slot's lock.
C15_SlotAccessUnderItsLock ==
    [][/\ \A t \in Threads, u \in Threads :
             (t # u /\ pc'[t] \in HoldingPcs /\ pc'[u] \in HoldingPcs)
                => slot'[t] # slot'[u]
       /\ \A t \in Threads : pc'[t] \in SlotAccessPcs => lock'[slot'[t]] = t
       /\ \A t \in Threads :
             (pc[t] \in {"slot_unpark_vehicle", "slot_unpark_status"})
                => call[t].ticket.slot = slot[t]
       /\ \A s \in SlotIds : SlotWritten(s) =>
             \E t \in Threads : /\ lock[s] = t /\ lock'[s] = t
                                /\ slot[t] = s
                                /\ Moves(t) /\ pc[t] \in SlotAccessPcs
      ]_vars

\* C15 witness: one thread is vacating a slot under its lock while another
\* waits for that lock.
C15_Witness ==
    \E t \in Threads, u \in Threads :
        /\ pc[t] = "slot_unpark_status" /\ lock[slot[t]] = t
        /\ pc[u] = "unpark_acquire" /\ slot[u] = slot[t]

\* allocate_slot has returned a slot to thread t's park_vehicle (line 96).
SlotReturned(t) == call[t].op = "park" /\ pc[t] = "park_recheck"

\* C16: when allocate_slot returns a slot, the calling thread holds that
\* slot's lock and no other, and the slot is AVAILABLE; the re-check of
\* park_vehicle never fails: no park_vehicle call is on its way out with None
\* while holding a slot.
C16_ReturnedSlotHeldAndAvailable ==
    \A t \in Threads :
        /\ SlotReturned(t) =>
              /\ HeldBy(t) = {slot[t]}
              /\ slot_status[slot[t]] = AVAILABLE
        /\ ~(pc[t] = "park_finally" /\ ret[t] = RetNone)

\* C16 witness: allocate_slot returned a slot after passing over an earlier
\* slot of the category that is BOOKED.
C16_Witness ==
    \E t \in Threads : \E s \in SlotIds :
        /\ SlotReturned(t)
        /\ vehicle_type[s] = call[t].vehicle.vehicle_type
        /\ Precedes(s, slot[t])
        /\ slot_status[s] = BOOKED /\ lock[s] = Unlocked

\* C17: in every reachable state in which a slot's lock is not held, the
\* slot's status is BOOKED if and only if its vehicle is not None.
C17_UnlockedBookedIffOccupied ==
    \A s \in SlotIds : lock[s] = Unlocked =>
        (slot_status[s] = BOOKED <=> slot_vehicle[s] # NoVehicle)

\* C17 witness: with no lock held, one slot is occupied and another has been
\* vacated by an unpark_vehicle call.
C17_Witness ==
    /\ \A s \in SlotIds : lock[s] = Unlocked
    /\ \E s \in SlotIds : slot_status[s] = BOOKED /\ slot_vehicle[s] # NoVehicle
    /\ \E tk \in tickets :
          /\ fees_paid[tk.ticket_id] = 1
          /\ slot_status[tk.slot] = AVAILABLE /\ slot_vehicle[tk.slot] = NoVehicle

\* The step moves thread t's scan past the slot it was at.
PassesOver(t) == idx'[t] = idx[t] + 1 /\ idx[t] \in 1..Len(ScanOrder)
\* The slot thread t's scan is at.
Probed(t) == ScanOrder[idx[t]]

\* C18: park_vehicle returns None only at the end of a scan that began at the
\* first slot and passed over the slots one by one, and a slot of the
\* vehicle's category is passed over only when, as it is probed, its lock is
\* held by another thread or, its lock taken, it is BOOKED.  So a slot of the
\* category that stays AVAILABLE and unlocked during the call is never passed.
C18_NoneOnlyAfterEverySlotRefused ==
    [][\A t \in Threads :
          /\ (ReturnsNone(t) /\ call[t].op = "park")
                => pc[t] = "scan" /\ idx[t] = Len(ScanOrder) + 1
          /\ (idx'[t] # idx[t]) =>
                \/ pc[t] = "idle" /\ idx'[t] = 1
                \/ PassesOver(t)
                \/ idx'[t] = 0 /\ pc'[t] \in {"park_recheck", "done"}
          /\ (PassesOver(t) /\ vehicle_type[Probed(t)] = call[t].vehicle.vehicle_type)
                => \/ pc[t] = "scan" /\ lock[Probed(t)] \notin {Unlocked, t}
                   \/ /\ pc[t] = "alloc_release"
                      /\ lock[Probed(t)] = t
                      /\ slot_status[Probed(t)] = BOOKED
      ]_vars

\* C18 witness: a park_vehicle call has returned None although a slot of the
\* category is AVAILABLE: its lock was held by another thread when probed.
C18_Witness ==
    \E t \in Threads : \E s \in SlotIds :
        /\ pc[t] = "done" /\ call[t].op = "park" /\ ret[t] = RetNone
        /\ vehicle_type[s] = call[t].vehicle.vehicle_type
        /\ slot_status[s] = AVAILABLE

\* Thread t executes the first statement of Slot.park / of Slot.unpark.
EntersSlotPark(t) == pc[t] = "slot_park_vehicle" /\ pc'[t] # pc[t]
EntersSlotUnpark(t) == pc[t] = "slot_unpark_vehicle" /\ pc'[t] # pc[t]

\* C19: Slot.park on a slot that is not AVAILABLE, and Slot.unpark on a slot
\* that is already AVAILABLE, raise an error and leave the slot's status and
\* occupant as they were.
C19_SlotContractViolationIsSignalled ==
    [][\A t \in Threads :
          /\ (EntersSlotPark(t) /\ slot_status[slot[t]] # AVAILABLE)
                => ret'[t].kind = "error" /\ UNCHANGED slotState
          /\ (EntersSlotUnpark(t) /\ slot_status[slot[t]] = AVAILABLE)
                => ret'[t].kind = "error" /\ UNCHANGED slotState
      ]_vars

----------------------------------------------------------------------------
\* PricingService (SpecPrice), continued

\* C20: calculate_price with an exit time earlier than the entry time fails
\* input validation: it raises and returns no fee.
C20_ExitBeforeEntryIsRejected ==
    \A t \in Threads :
        (Priced(t) /\ call[t].exit_time < call[t].entry_time)
            => ret[t].kind = "error"

====
